---- MODULE Spec2Model ----
(***************************************************************************)
(* Model of xl.py: helper functions that forward to a spreadsheet library  *)
(* (openpyxl).  The state is the caller's workbook (a map from cell names  *)
(* to cells), the outcome of the last helper call, and the history of the  *)
(* calls made.  Each helper is an operator that maps the cells and its     *)
(* arguments to the new cells and an outcome (a returned value or a raised *)
(* exception); one action per helper draws the arguments and applies it.   *)
(*                                                                         *)
(* Conventions.  An optional value is a tuple: <<>> is Python's None (or   *)
(* an argument left out of a call), <<v>> is the value v.  An outcome is a *)
(* record [exc, val]: exc = "" and val = <<v>> for "return v"; exc = the   *)
(* exception's class and val = <<>> for "raise".  A color string is the    *)
(* tuple of its characters, so that the library's check of its length and  *)
(* of its digits is computed and not assumed.                              *)
(***************************************************************************)
EXTENDS Integers, Sequences, FiniteSets, TLC

VARIABLES cells, ret, log

vars == <<cells, ret, log>>

\* The longest call history explored.
MaxCalls == 2

None == <<>>
Some(v) == <<v>>

Ok(v) == [exc |-> "", val |-> <<v>>]
Raise(e) == [exc |-> e, val |-> <<>>]

\* What a function without a return statement returns.
NoneObj == [type |-> "NoneType"]

\* A parameter with a default value: the default when the argument is left out.
Default(arg, d) == IF arg = None THEN d ELSE arg[1]

------------------------------------------------------------------------------
\* The library: style value objects, compared by value.

HexDigits ==
    {"0", "1", "2", "3", "4", "5", "6", "7", "8", "9",
     "A", "B", "C", "D", "E", "F", "a", "b", "c", "d", "e", "f"}

\* The aRGB check of a color string: 6 or 8 hex digits, 6 digits get "00" in front.
RGB(value) ==
    IF Len(value) \in {6, 8} /\ \A i \in 1..Len(value) : value[i] \in HexDigits
    THEN Ok(IF Len(value) = 6 THEN <<"0", "0">> \o value ELSE value)
    ELSE Raise("ValueError")

Color(rgb) ==
    LET r == RGB(rgb)
    IN  IF r.exc # "" THEN r ELSE Ok([type |-> "Color", rgb |-> r.val[1]])

\* A color attribute: a string is converted to a Color, None is kept.
ColorDescriptor(value) ==
    IF value = None THEN Ok(None)
    ELSE LET c == Color(value[1])
         IN  IF c.exc # "" THEN c ELSE Ok(Some(c.val[1]))

\* Font(b, color, name, sz): each an optional value.
Font(bold, color, name, size) ==
    LET c == ColorDescriptor(color)
    IN  IF c.exc # "" THEN Raise(c.exc)
        ELSE Ok([type |-> "Font", b |-> bold, color |-> c.val[1],
                 name |-> name, sz |-> size])

PatternFill(start_color, end_color, fill_type) ==
    LET fg == ColorDescriptor(start_color)
        bg == ColorDescriptor(end_color)
    IN  IF fg.exc # "" THEN Raise(fg.exc)
        ELSE IF bg.exc # "" THEN Raise(bg.exc)
        ELSE Ok([type |-> "PatternFill", patternType |-> fill_type,
                 fgColor |-> fg.val[1], bgColor |-> bg.val[1]])

BorderStyles ==
    {"dashDot", "dashDotDot", "dashed", "dotted", "double", "hair", "medium",
     "mediumDashDot", "mediumDashDotDot", "mediumDashed", "slantDashDot",
     "thick", "thin"}

Side(style, color) ==
    LET c == ColorDescriptor(color)
    IN  IF style # None /\ style[1] \notin BorderStyles THEN Raise("ValueError")
        ELSE IF c.exc # "" THEN Raise(c.exc)
        ELSE Ok([type |-> "Side", style |-> style, color |-> c.val[1]])

Border(bottom, left, right, top) ==
    Ok([type |-> "Border", left |-> left, right |-> right,
        top |-> top, bottom |-> bottom])

Alignment(horizontal) ==
    Ok([type |-> "Alignment", horizontal |-> horizontal])

Comment(text, author) ==
    Ok([type |-> "Comment", text |-> text, author |-> author])

------------------------------------------------------------------------------
\* The library: workbooks and stored documents.

Cells == {"A1", "B1"}

Attrs ==
    {"value", "font", "fill", "border", "alignment", "comment", "number_format"}

Zero8 == <<"0", "0", "0", "0", "0", "0", "0", "0">>
Zero6 == <<"0", "0", "0", "0", "0", "0">>

\* The style of a cell nobody has styled.
DefaultCell ==
    [value |-> None,
     font |-> [type |-> "Font", b |-> Some(FALSE),
               color |-> Some([type |-> "Color", theme |-> 1]),
               name |-> Some("Calibri"), sz |-> Some(11)],
     fill |-> [type |-> "PatternFill", patternType |-> None,
               fgColor |-> Some([type |-> "Color", rgb |-> Zero8]),
               bgColor |-> Some([type |-> "Color", rgb |-> Zero8])],
     border |-> [type |-> "Border",
                 left |-> Some([type |-> "Side", style |-> None, color |-> None]),
                 right |-> Some([type |-> "Side", style |-> None, color |-> None]),
                 top |-> Some([type |-> "Side", style |-> None, color |-> None]),
                 bottom |-> Some([type |-> "Side", style |-> None, color |-> None])],
     alignment |-> [type |-> "Alignment", horizontal |-> None],
     comment |-> None,
     number_format |-> "General"]

\* Workbook(): every cell empty and unstyled.
Workbook == Ok([type |-> "Workbook", cells |-> [c \in Cells |-> DefaultCell]])

Num(n) == [data_type |-> "n", num |-> n, str |-> ""]
Formula(s) == [data_type |-> "f", num |-> 0, str |-> s]

\* The documents on disk: per cell, the formula (if any) and the stored value (for a
\* formula cell, the value cached at the last calculation, if any).
Files ==
    [book |-> [A1 |-> [f |-> None, v |-> Some(Num(2))],
               B1 |-> [f |-> Some("=A1*2"), v |-> Some(Num(4))]],
     fresh |-> [A1 |-> [f |-> Some("=B1+1"), v |-> None],
                B1 |-> [f |-> None, v |-> Some(Num(7))]]]

\* load_workbook(filename, data_only): a formula cell reads as its cached value with
\* data_only and as its formula without.
load_workbook(filename, data_only) ==
    IF filename \notin DOMAIN Files THEN Raise("FileNotFoundError")
    ELSE Ok([type |-> "Workbook",
             cells |-> [c \in Cells |->
                 LET sc == Files[filename][c]
                 IN  [DefaultCell EXCEPT !.value =
                         IF sc.f # None /\ ~data_only
                         THEN Some(Formula(sc.f[1])) ELSE sc.v]]])

\* Reading a style attribute of a cell (font, fill, border, alignment) yields a proxy
\* of the stored style object, not the object.
StyleProxy(target) == [type |-> "StyleProxy", target |-> target]

GetStyle(cs, cell, attr) == StyleProxy(cs[cell][attr])

\* Assigning a style attribute of a cell stores the value in the workbook's table of
\* styles, which hashes it.  Style objects hash by value; a StyleProxy defines
\* equality and no hash, so assigning one raises TypeError ("unhashable type").
SetStyle(cs, cell, attr, value) ==
    IF value.type = "StyleProxy"
    THEN [cells |-> cs, out |-> Raise("TypeError")]
    ELSE [cells |-> [cs EXCEPT ![cell][attr] = value], out |-> Ok(NoneObj)]

\* Assigning the comment or the number format of a cell.
SetAttr(cs, cell, attr, value) ==
    [cells |-> [cs EXCEPT ![cell][attr] = value], out |-> Ok(NoneObj)]

------------------------------------------------------------------------------
\* The helpers of xl.py.  Each yields [cells |-> the cells after, out |-> the outcome].

\* Variants of the helpers, each with one slip, against which the properties below
\* are tried: a property that such a variant still satisfies says nothing of the code.

\* data_only is not passed on.
load_wb_ignoring_data_only(cs, filename, data_only) ==
    [cells |-> cs, out |-> load_workbook(filename, FALSE)]

\* An exception of the Font constructor is swallowed.
apply_font_swallowing(cs, cell, bold, color, name, size) ==
    LET f == Font(Some(Default(bold, FALSE)), Some(Default(color, Zero8)),
                  Some(Default(name, "Arial")), Some(Default(size, 10)))
    IN  IF f.exc # "" THEN [cells |-> cs, out |-> Ok(NoneObj)]
        ELSE SetStyle(cs, cell, "font", f.val[1])

\* Only the start color is passed on; the end color is the library's default.
apply_fill_start_only(cs, cell, color) ==
    LET f == PatternFill(Some(color), Some(Zero8), Some("solid"))
    IN  IF f.exc # "" THEN [cells |-> cs, out |-> Raise(f.exc)]
        ELSE SetStyle(cs, cell, "fill", f.val[1])

\* The fill is set on a cell reset to the default style.
apply_fill_resetting(cs, cell, color) ==
    LET f == PatternFill(Some(color), Some(color), Some("solid"))
    IN  IF f.exc # "" THEN [cells |-> cs, out |-> Raise(f.exc)]
        ELSE SetStyle([cs EXCEPT ![cell] = DefaultCell], cell, "fill", f.val[1])

\* The default style is "thin".
get_side_thin(style, color) ==
    Side(Some(Default(style, "thin")), Some(Default(color, Zero6)))

\* left and right are passed on for each other.
get_border_swapped(bottom, left, right, top) == Border(bottom, right, left, top)

\* The alignment is read before it is assigned.
apply_center_alignment_stale(cs, cell) ==
    LET s == SetStyle(cs, cell, "alignment", Alignment(Some("center")).val[1])
    IN  IF s.out.exc # "" THEN s
        ELSE [cells |-> s.cells, out |-> Ok(GetStyle(cs, cell, "alignment"))]

create_wb == [cells |-> cells, out |-> Workbook]

load_wb(cs, filename, data_only) ==
    [cells |-> cs, out |-> load_workbook(filename, Default(data_only, FALSE))]

apply_font(cs, cell, bold, color, name, size) ==
    LET f == Font(Some(Default(bold, FALSE)), Some(Default(color, Zero8)),
                  Some(Default(name, "Arial")), Some(Default(size, 10)))
    IN  IF f.exc # "" THEN [cells |-> cs, out |-> Raise(f.exc)]
        ELSE SetStyle(cs, cell, "font", f.val[1])

apply_fill(cs, cell, color) ==
    LET f == PatternFill(Some(color), Some(color), Some("solid"))
    IN  IF f.exc # "" THEN [cells |-> cs, out |-> Raise(f.exc)]
        ELSE SetStyle(cs, cell, "fill", f.val[1])

get_side(style, color) ==
    Side(Some(Default(style, "medium")), Some(Default(color, Zero6)))

get_border(bottom, left, right, top) == Border(bottom, left, right, top)

apply_center_alignment(cs, cell) ==
    LET s == SetStyle(cs, cell, "alignment", Alignment(Some("center")).val[1])
    IN  IF s.out.exc # "" THEN s
        ELSE [cells |-> s.cells, out |-> Ok(GetStyle(s.cells, cell, "alignment"))]

\* Line 119 assigns to cell.alignment what apply_center_alignment returned, line 120
\* the border, line 121 the font; an exception ends the function where it is raised.
apply_header_cell(cs, cell) ==
    LET a == apply_center_alignment(cs, cell)
    IN  IF a.out.exc # "" THEN a
        ELSE
        LET s1 == SetStyle(a.cells, cell, "alignment", a.out.val[1])
        IN  IF s1.out.exc # "" THEN s1
            ELSE
            LET side == get_side(None, None)
            IN  IF side.exc # "" THEN [cells |-> s1.cells, out |-> side]
                ELSE
                LET s2 == SetStyle(s1.cells, cell, "border",
                                   get_border(Some(side.val[1]), None, None, None).val[1])
                IN  IF s2.out.exc # "" THEN s2
                    ELSE SetStyle(s2.cells, cell, "font",
                                  Font(Some(TRUE), None, None, None).val[1])

add_comment(cs, cell, comment, author) ==
    SetAttr(cs, cell, "comment", Some(Comment(comment, author).val[1]))

apply_number_format(cs, cell, format) ==
    SetAttr(cs, cell, "number_format", Default(format, "R$ #,##0.00"))

------------------------------------------------------------------------------
\* The arguments the calls are drawn from.

Opt(S) == {None} \cup {Some(x) : x \in S}

Red == <<"F", "F", "0", "0", "0", "0">>
OpaqueBlue == <<"F", "F", "0", "0", "0", "0", "F", "F">>
Malformed == <<"r", "e", "d">>

FontColors == {Red, Malformed}
FillColors == {Red, OpaqueBlue, Malformed}
FontNames == {"Calibri"}
FontSizes == {12}
SideStyles == {"thin", "bogus"}
SideColors == {Red, Malformed}
Texts == {"check", "todo"}
Authors == {"ana"}
Formats == {"0.00%", "#,##0"}
Filenames == {"book", "fresh", "missing"}

\* The side passed for each edge of get_border, when one is passed: four different ones.
EdgeSide ==
    [bottom |-> Side(Some("thin"), Some(Red)).val[1],
     left   |-> Side(Some("thick"), Some(Red)).val[1],
     right  |-> Side(Some("medium"), None).val[1],
     top    |-> Side(Some("double"), Some(OpaqueBlue)).val[1]]

------------------------------------------------------------------------------
\* The state machine.

Init ==
    /\ cells = Workbook.val[1].cells
    /\ ret = Ok(NoneObj)
    /\ log = <<>>

\* One call: its result becomes the state, and the call is appended to the history.
Step(call, r) ==
    /\ Len(log) < MaxCalls
    /\ cells' = r.cells
    /\ ret' = r.out
    /\ log' = Append(log, call)

CreateWb ==
    Step([op |-> "create_wb", cell |-> "", args |-> <<>>], create_wb)

LoadWb ==
    \E filename \in Filenames, data_only \in Opt(BOOLEAN) :
        Step([op |-> "load_wb", cell |-> "", args |-> <<filename, data_only>>],
             load_wb(cells, filename, data_only))

ApplyFont ==
    \E cell \in Cells, bold \in Opt(BOOLEAN), color \in Opt(FontColors),
       name \in Opt(FontNames), size \in Opt(FontSizes) :
        Step([op |-> "apply_font", cell |-> cell, args |-> <<bold, color, name, size>>],
             apply_font(cells, cell, bold, color, name, size))

ApplyFill ==
    \E cell \in Cells, color \in FillColors :
        Step([op |-> "apply_fill", cell |-> cell, args |-> <<color>>],
             apply_fill(cells, cell, color))

GetSide ==
    \E style \in Opt(SideStyles), color \in Opt(SideColors) :
        Step([op |-> "get_side", cell |-> "", args |-> <<style, color>>],
             [cells |-> cells, out |-> get_side(style, color)])

GetBorder ==
    \E given \in SUBSET {"bottom", "left", "right", "top"} :
        LET arg(e) == IF e \in given THEN Some(EdgeSide[e]) ELSE None
        IN  Step([op |-> "get_border", cell |-> "",
                  args |-> <<arg("bottom"), arg("left"), arg("right"), arg("top")>>],
                 [cells |-> cells,
                  out |-> get_border(arg("bottom"), arg("left"),
                                     arg("right"), arg("top"))])

ApplyCenterAlignment ==
    \E cell \in Cells :
        Step([op |-> "apply_center_alignment", cell |-> cell, args |-> <<>>],
             apply_center_alignment(cells, cell))

ApplyHeaderCell ==
    \E cell \in Cells :
        Step([op |-> "apply_header_cell", cell |-> cell, args |-> <<>>],
             apply_header_cell(cells, cell))

AddComment ==
    \E cell \in Cells, comment \in Texts, author \in Authors :
        Step([op |-> "add_comment", cell |-> cell, args |-> <<comment, author>>],
             add_comment(cells, cell, comment, author))

ApplyNumberFormat ==
    \E cell \in Cells, format \in Opt(Formats) :
        Step([op |-> "apply_number_format", cell |-> cell, args |-> <<format>>],
             apply_number_format(cells, cell, format))

Next ==
    \/ CreateWb
    \/ LoadWb
    \/ ApplyFont
    \/ ApplyFill
    \/ GetSide
    \/ GetBorder
    \/ ApplyCenterAlignment
    \/ ApplyHeaderCell
    \/ AddComment
    \/ ApplyNumberFormat

Spec == Init /\ [][Next]_vars

------------------------------------------------------------------------------
\* Reading the history.

LastCall == log[Len(log)]
Called(op) == Len(log) > 0 /\ LastCall.op = op
Returned == ret.exc = ""

\* The call a step makes.
IsCall == Len(log') = Len(log) + 1
NewCall == log'[Len(log')]

\* The side get_side() makes when called without arguments, as documented.
DefaultSide ==
    [type |-> "Side", style |-> Some("medium"),
     color |-> Some([type |-> "Color", rgb |-> Zero8])]

\* The border and the font of a header cell, as documented.
HeaderBorder ==
    [type |-> "Border", bottom |-> Some(DefaultSide),
     left |-> None, right |-> None, top |-> None]
HeaderFont ==
    [type |-> "Font", b |-> Some(TRUE), color |-> None, name |-> None, sz |-> None]

\* C1: after apply_header_cell(cell), whatever the cell's style was, the cell has at
\* once a centered alignment, a border with the default side (medium, 000000) at the
\* bottom and no side at the left, right and top, and a bold font.
C1_HeaderCell ==
    Called("apply_header_cell") =>
        LET c == cells[LastCall.cell]
        IN  /\ c.alignment.horizontal = Some("center")
            /\ c.border.bottom = Some(DefaultSide)
            /\ c.border.left = None
            /\ c.border.right = None
            /\ c.border.top = None
            /\ c.font.b = Some(TRUE)

\* C2: after apply_font(cell, bold, color, name, size) the cell's font is the font
\* made from exactly these four parameters, and after apply_fill(cell, color) the
\* cell's fill is solid with the start color and the end color both that color.
C2_FontAndFill ==
    /\ (Called("apply_font") /\ Returned /\ \A i \in 1..4 : LastCall.args[i] # None) =>
          cells[LastCall.cell].font =
              [type |-> "Font", b |-> LastCall.args[1],
               color |-> Some(Color(LastCall.args[2][1]).val[1]),
               name |-> LastCall.args[3], sz |-> LastCall.args[4]]
    /\ (Called("apply_fill") /\ Returned) =>
          LET f == cells[LastCall.cell].fill
              c == Some(Color(LastCall.args[1]).val[1])
          IN  /\ f.patternType = Some("solid")
              /\ f.fgColor = c
              /\ f.bgColor = c

\* A font set with all four parameters given, on a cell filled before.
C2_Witness ==
    /\ Len(log) = 2
    /\ log[1].op = "apply_fill" /\ log[2].op = "apply_font"
    /\ log[1].cell = log[2].cell
    /\ \A i \in 1..4 : log[2].args[i] # None
    /\ Returned
    /\ cells[log[2].cell].fill.patternType = Some("solid")
    /\ cells[log[2].cell].fill.bgColor = Some([type |-> "Color", rgb |-> OpaqueBlue])
    /\ cells[log[2].cell].font.sz = Some(12)

\* C3: with the optional parameters left out, apply_font(cell) sets Arial, size 10,
\* not bold, color "00000000"; apply_number_format(cell) sets "R$ #,##0.00"; and
\* get_side() returns a side of style "medium" and color "000000".
C3_Defaults ==
    /\ (Called("apply_font") /\ LastCall.args = <<None, None, None, None>>) =>
          /\ Returned
          /\ cells[LastCall.cell].font.name = Some("Arial")
          /\ cells[LastCall.cell].font.sz = Some(10)
          /\ cells[LastCall.cell].font.b = Some(FALSE)
          /\ cells[LastCall.cell].font.color = Some([type |-> "Color", rgb |-> Zero8])
    /\ (Called("apply_number_format") /\ LastCall.args = <<None>>) =>
          cells[LastCall.cell].number_format = "R$ #,##0.00"
    /\ (Called("get_side") /\ LastCall.args = <<None, None>>) =>
          /\ Returned
          /\ ret.val[1].style = Some("medium")
          /\ ret.val[1].color = Some(Color(Zero6).val[1])

\* get_side() called after apply_font(cell): two of the three defaults at once.
C3_Witness ==
    /\ Len(log) = 2
    /\ log[1].op = "apply_font" /\ log[1].args = <<None, None, None, None>>
    /\ log[2].op = "get_side" /\ log[2].args = <<None, None>>
    /\ cells[log[1].cell].font.name = Some("Arial")
    /\ ret.val[1].style = Some("medium")

\* C4: apply_center_alignment(cell) sets the alignment to horizontal = "center" and
\* returns the cell's alignment as it stands after the call.
C4_CenterAlignment ==
    Called("apply_center_alignment") =>
        /\ Returned
        /\ cells[LastCall.cell].alignment.horizontal = Some("center")
        /\ ret.val[1].target = cells[LastCall.cell].alignment

\* The alignment set on a cell that was not centered before.
C4_Witness ==
    /\ Len(log) = 2
    /\ log[1].op = "apply_fill"
    /\ log[2].op = "apply_center_alignment"
    /\ ret.val[1].target.horizontal = Some("center")

\* C5: in the border get_border returns, every side passed is the side of the edge
\* it was passed for, and every side left out is None.
C5_Border ==
    Called("get_border") =>
        /\ Returned
        /\ ret.val[1].bottom = LastCall.args[1]
        /\ ret.val[1].left = LastCall.args[2]
        /\ ret.val[1].right = LastCall.args[3]
        /\ ret.val[1].top = LastCall.args[4]

\* A border made from a left and a top side only.
C5_Witness ==
    /\ Called("get_border")
    /\ LastCall.args[1] = None /\ LastCall.args[2] # None
    /\ LastCall.args[3] = None /\ LastCall.args[4] # None
    /\ ret.val[1].left = Some(EdgeSide.left)
    /\ ret.val[1].right = None

\* C6: for a stored document with a formula cell that has a cached value, load_wb
\* with data_only = True returns that cell holding the cached value and not the
\* formula; load_wb with data_only False or left out returns it holding the formula.
C6_DataOnly ==
    (Called("load_wb") /\ LastCall.args[1] \in DOMAIN Files) =>
        /\ Returned
        /\ \A c \in Cells :
              LET sc == Files[LastCall.args[1]][c]
                  got == ret.val[1].cells[c].value
              IN  (sc.f # None /\ sc.v # None) =>
                      IF LastCall.args[2] = Some(TRUE)
                      THEN got = sc.v /\ got # Some(Formula(sc.f[1]))
                      ELSE got = Some(Formula(sc.f[1]))

\* The document with the cached value, loaded with data_only = True.
C6_Witness ==
    /\ Called("load_wb")
    /\ LastCall.args = <<"book", Some(TRUE)>>
    /\ ret.val[1].cells["B1"].value = Some(Num(4))

\* The error the library raises for the arguments of a call ("" when it accepts them).
LibraryError(call) ==
    CASE call.op = "load_wb" ->
            IF call.args[1] \in DOMAIN Files THEN "" ELSE "FileNotFoundError"
      [] call.op = "apply_font" ->
            IF call.args[2] = None THEN "" ELSE RGB(call.args[2][1]).exc
      [] call.op = "apply_fill" -> RGB(call.args[1]).exc
      [] call.op = "get_side" ->
            IF call.args[1] # None /\ call.args[1][1] \notin BorderStyles
            THEN "ValueError"
            ELSE IF call.args[2] = None THEN "" ELSE RGB(call.args[2][1]).exc
      [] OTHER -> ""

\* C7: when the library rejects an argument of a helper (a path that is no file, a
\* malformed color, an unknown border style), the helper's outcome is that error,
\* and the cells are as they were before the call.
C7_ErrorsPropagate ==
    [][(IsCall /\ LibraryError(NewCall) # "") =>
           /\ ret' = Raise(LibraryError(NewCall))
           /\ cells' = cells]_vars

\* A malformed color given for the font of a cell whose font was set bold before.
C7_Witness ==
    /\ Len(log) = 2
    /\ log[1].op = "apply_font" /\ log[1].args = <<Some(TRUE), None, None, None>>
    /\ log[2].op = "apply_font" /\ log[2].cell = log[1].cell
    /\ log[2].args[2] = Some(Malformed)
    /\ ret = Raise("ValueError")
    /\ cells[log[2].cell].font.b = Some(TRUE)

\* C8: apply_header_cell(cell) leaves the cells exactly as the sequence
\* apply_center_alignment(cell); cell.border = get_border(bottom=get_side());
\* apply_font(cell, bold=True) does, the whole font included.
C8_HeaderIsComposition ==
    [][(IsCall /\ NewCall.op = "apply_header_cell") =>
           cells' = apply_font(
                        SetStyle(apply_center_alignment(cells, NewCall.cell).cells,
                                 NewCall.cell, "border",
                                 get_border(Some(get_side(None, None).val[1]),
                                            None, None, None).val[1]).cells,
                        NewCall.cell, Some(TRUE), None, None, None).cells]_vars

\* The attributes of its cell a helper is meant to write.
Targets(op) ==
    CASE op = "apply_font" -> {"font"}
      [] op = "apply_fill" -> {"fill"}
      [] op = "apply_center_alignment" -> {"alignment"}
      [] op = "add_comment" -> {"comment"}
      [] op = "apply_number_format" -> {"number_format"}
      [] op = "apply_header_cell" -> {"alignment", "border", "font"}
      [] OTHER -> {}

\* C9: a helper changes only its own attributes of the cell it is given: the value
\* and the other attributes of that cell, and every other cell, are unchanged;
\* get_side and get_border (and create_wb and load_wb) change no cell.
C9_Frame ==
    [][IsCall =>
           \A c \in Cells, a \in Attrs :
               (c # NewCall.cell \/ a \notin Targets(NewCall.op)) =>
                   cells'[c][a] = cells[c][a]]_vars

\* A header applied to one cell after the font of the other cell was set: the
\* header's cell is centered and keeps its fill, the other cell keeps its font.
C9_Witness ==
    /\ Len(log) = 2
    /\ log[1].op = "apply_font" /\ log[1].cell = "B1" /\ log[1].args[4] = Some(12)
    /\ log[2].op = "apply_header_cell" /\ log[2].cell = "A1"
    /\ cells["A1"].alignment.horizontal = Some("center")
    /\ cells["A1"].fill = DefaultCell.fill
    /\ cells["B1"].alignment = DefaultCell.alignment
    /\ cells["B1"].font.sz = Some(12)

\* What a call writes to attribute attr of its cell, as documented: <<the value>>, or
\* <<>> when it writes nothing there (the attribute is not its own, or the library
\* rejected its arguments).
WriteOf(call, attr) ==
    IF attr \notin Targets(call.op) \/ LibraryError(call) # "" THEN None
    ELSE CASE call.op = "apply_font" ->
                Some([type |-> "Font",
                      b |-> Some(Default(call.args[1], FALSE)),
                      color |-> Some(Color(Default(call.args[2], Zero8)).val[1]),
                      name |-> Some(Default(call.args[3], "Arial")),
                      sz |-> Some(Default(call.args[4], 10))])
           [] call.op = "apply_fill" ->
                Some([type |-> "PatternFill", patternType |-> Some("solid"),
                      fgColor |-> Some(Color(call.args[1]).val[1]),
                      bgColor |-> Some(Color(call.args[1]).val[1])])
           [] call.op = "apply_center_alignment" ->
                Some([type |-> "Alignment", horizontal |-> Some("center")])
           [] call.op = "add_comment" ->
                Some(Some([type |-> "Comment", text |-> call.args[1],
                           author |-> call.args[2]]))
           [] call.op = "apply_number_format" ->
                Some(Default(call.args[1], "R$ #,##0.00"))
           [] call.op = "apply_header_cell" ->
                CASE attr = "alignment" ->
                        Some([type |-> "Alignment", horizontal |-> Some("center")])
                  [] attr = "border" -> Some(HeaderBorder)
                  [] attr = "font" -> Some(HeaderFont)

\* The value the last call of history l that writes attr of cell wrote there, or the
\* initial value when no call of l does.
RECURSIVE LastWrite(_, _, _)
LastWrite(l, cell, attr) ==
    IF l = <<>> THEN DefaultCell[attr]
    ELSE LET call == l[Len(l)]
             w == IF call.cell = cell THEN WriteOf(call, attr) ELSE None
         IN  IF w # None THEN w[1]
             ELSE LastWrite(SubSeq(l, 1, Len(l) - 1), cell, attr)

\* C10: last write wins, with no merging: after any sequence of helper calls each
\* attribute of each cell is the value written by the last call of the sequence
\* that targets it, or its initial value if no call does.
C10_LastWriteWins ==
    \A c \in Cells, a \in Attrs : cells[c][a] = LastWrite(log, c, a)

====
